---- MODULE Spec2Model ----
(***************************************************************************)
(* Model of the expression-binding engine of src/src/bindings.ts:          *)
(* the parameter-list parser driven by a pushdown automaton, the literal   *)
(* evaluator, the expression evaluator, the string interpolator and the    *)
(* recursive tree binder.                                                  *)
(*                                                                         *)
(* A JavaScript string is a sequence of one-character strings.  A          *)
(* JavaScript value is a tagged record (see the section "Values").         *)
(***************************************************************************)
EXTENDS Integers, Sequences, FiniteSets, TLC

VARIABLES
  pc,               \* position of the running call
  parameterString,  \* parseParameters: its argument
  position,         \* parseParameters: `position`
  parameters,       \* parseParameters: `parameters`
  consumed,         \* history: the matches returned by dpa.match, in order
  delimiters,       \* history: the offsets of the commas that ended a match
  currentState,     \* dpa.match: the automaton's state
  stack,            \* dpa.match: the automaton's stack
  remainingInput,   \* dpa.match: the input not yet read
  data,             \* the argument of the call under check (string or tree)
  contextHierarchy, \* the hierarchy argument of the call under check
  result,           \* the outcome of the call under check
  segments          \* history: the pieces the input string was built from

vars == <<pc, parameterString, position, parameters, consumed, delimiters,
          currentState, stack, remainingInput, data, contextHierarchy, result,
          segments>>

callVars == <<data, contextHierarchy, result, segments>>

paramVars == <<parameterString, position, parameters, consumed, delimiters,
               currentState, stack, remainingInput>>

(***************************************************************************)
(* Bounds                                                                  *)
(***************************************************************************)
\* longest enumerated parameter string
MaxParamLen == 5
\* longest enumerated literal
MaxLiteralLen == 3
\* most backslashes in front of a binding
MaxSlashes == 3
\* most items of an enumerated array
MaxItems == 2

(***************************************************************************)
(* Strings                                                                 *)
(***************************************************************************)
Quote == "'"
Backslash == "\\"

\* String.prototype.substr(from) with a 0-based offset
Substr(s, from) == SubSeq(s, from + 1, Len(s))

\* String.prototype.substr(0, n)
Prefix(s, n) == SubSeq(s, 1, n)

StartsWith(s, p) == Len(s) >= Len(p) /\ SubSeq(s, 1, Len(p)) = p

EndsWith(s, p) == Len(s) >= Len(p) /\ SubSeq(s, Len(s) - Len(p) + 1, Len(s)) = p

IsSpace(c) == c = " "

RECURSIVE TrimStart(_)
TrimStart(s) == IF s /= <<>> /\ IsSpace(Head(s)) THEN TrimStart(Tail(s)) ELSE s

RECURSIVE TrimEnd(_)
TrimEnd(s) ==
  IF s /= <<>> /\ IsSpace(s[Len(s)]) THEN TrimEnd(SubSeq(s, 1, Len(s) - 1)) ELSE s

\* String.prototype.trim
Trim(s) == TrimEnd(TrimStart(s))

\* match.replace(/,$/, '')
StripTrailingComma(s) ==
  IF s /= <<>> /\ s[Len(s)] = "," THEN SubSeq(s, 1, Len(s) - 1) ELSE s

RECURSIVE Concat(_)
Concat(ss) == IF ss = <<>> THEN <<>> ELSE Head(ss) \o Concat(Tail(ss))

(***************************************************************************)
(* The parameter-list automaton                                            *)
(***************************************************************************)
\* /'([^']|(\\.))*'/ applied at the start of `s`, from offset i (1-based) of
\* the starred group: the alternatives are tried in the order written, so
\* [^'] takes every character but a quote, a backslash included.
RECURSIVE ParamStringStar(_, _)
ParamStringStar(s, i) ==
  IF i <= Len(s) /\ s[i] /= Quote THEN ParamStringStar(s, i + 1)
  ELSE IF i + 1 <= Len(s) /\ s[i] = Backslash THEN ParamStringStar(s, i + 2)
  ELSE i

\* the closing quote of the pattern, expected at offset i: the length read,
\* -1 when the quote is not there
ParamStringClose(s, i) == IF i <= Len(s) /\ s[i] = Quote THEN i ELSE -1

\* length of the prefix of `s` the rule's pattern reads, -1 when it reads none
ParamStringRead(s) ==
  IF s /= <<>> /\ s[1] = Quote THEN ParamStringClose(s, ParamStringStar(s, 2)) ELSE -1

\* const transitions = {...}: `read` names the pattern, `push`/`pop` are ""
\* when absent, "EMPTY" is Automaton.empty
DpaTransitions(state) ==
  CASE state = "initial" ->
         << [read |-> "commaOrEnd", push |-> "", pop |-> "", next |-> "final"],
            [read |-> "(", push |-> "(", pop |-> "", next |-> "insideParameterList"],
            [read |-> "string", push |-> "", pop |-> "", next |-> "initial"],
            [read |-> "notCloseParen", push |-> "", pop |-> "", next |-> "initial"] >>
    [] state = "insideParameterList" ->
         << [read |-> "(", push |-> "(", pop |-> "", next |-> "insideParameterList"],
            [read |-> ")", push |-> "", pop |-> "(", next |-> "isParameterListOver"],
            [read |-> "string", push |-> "", pop |-> "", next |-> "insideParameterList"],
            [read |-> "any", push |-> "", pop |-> "", next |-> "insideParameterList"] >>
    [] state = "isParameterListOver" ->
         << [read |-> "", push |-> "", pop |-> "EMPTY", next |-> "initial"],
            [read |-> "", push |-> "", pop |-> "", next |-> "insideParameterList"] >>
    [] OTHER -> << >>

\* length of the prefix of `input` a rule's `read` matches, -1 when none
ReadLength(read, input) ==
  CASE read = "" -> 0
    [] read = "commaOrEnd" ->
         IF input /= <<>> /\ input[1] = "," THEN 1
         ELSE IF input = <<>> THEN 0 ELSE -1
    [] read = "(" -> IF input /= <<>> /\ input[1] = "(" THEN 1 ELSE -1
    [] read = ")" -> IF input /= <<>> /\ input[1] = ")" THEN 1 ELSE -1
    [] read = "string" -> ParamStringRead(input)
    [] read = "notCloseParen" -> IF input /= <<>> /\ input[1] /= ")" THEN 1 ELSE -1
    [] read = "any" -> IF input /= <<>> /\ input[1] /= "\n" THEN 1 ELSE -1
    [] OTHER -> -1

\* whether a rule's pop requirement holds of the stack
PopAllowed(pop, stk) ==
  CASE pop = "" -> TRUE
    [] pop = "EMPTY" -> stk = <<>>
    [] OTHER -> stk /= <<>> /\ stk[Len(stk)] = pop

\* the rules are tried in declaration order from index i on: index of the
\* first that applies, 0 when none does
RECURSIVE DpaSelectFrom(_, _, _, _)
DpaSelectFrom(rules, i, stk, input) ==
  IF i > Len(rules) THEN 0
  ELSE IF PopAllowed(rules[i].pop, stk) /\ ReadLength(rules[i].read, input) >= 0 THEN i
  ELSE DpaSelectFrom(rules, i + 1, stk, input)

DpaSelect(state, stk, input) == DpaSelectFrom(DpaTransitions(state), 1, stk, input)

\* the stack after the rule's pop
DpaPop(rule, stk) ==
  IF rule.pop \notin {"", "EMPTY"} THEN SubSeq(stk, 1, Len(stk) - 1) ELSE stk

\* the stack after a rule is taken: its pop, then its push
DpaStack(rule, stk) ==
  IF rule.push /= "" THEN Append(DpaPop(rule, stk), rule.push) ELSE DpaPop(rule, stk)

\* the configuration after rule i of the state is taken; `ok` is FALSE for
\* i = 0, when no rule applies
DpaTake(i, state, stk, input) ==
  IF i = 0 THEN [ok |-> FALSE, state |-> state, stack |-> stk, input |-> input]
  ELSE [ok |-> TRUE, state |-> DpaTransitions(state)[i].next,
        stack |-> DpaStack(DpaTransitions(state)[i], stk),
        input |-> Substr(input, ReadLength(DpaTransitions(state)[i].read, input))]

\* the configuration after one transition
DpaNext(state, stk, input) == DpaTake(DpaSelect(state, stk, input), state, stk, input)

\* dpa.match run to its end from a configuration: the number of characters
\* left unread when the final state is reached, -1 for no match
RECURSIVE DpaRun(_, _, _)
RECURSIVE DpaRunFrom(_)
DpaRunFrom(n) == IF n.ok THEN DpaRun(n.state, n.stack, n.input) ELSE -1

DpaRun(state, stk, input) ==
  IF state = "final" THEN Len(input) ELSE DpaRunFrom(DpaNext(state, stk, input))

\* the result of dpa.match when `left` characters are left unread
DpaMatched(input, left) ==
  IF left < 0 THEN [ok |-> FALSE, match |-> <<>>]
  ELSE [ok |-> TRUE, match |-> Prefix(input, Len(input) - left)]

\* dpa.match(input): the consumed prefix; `ok` is FALSE for no match
DpaMatch(input) == DpaMatched(input, DpaRun("initial", <<>>, input))

\* a variant of ParameterOf that forgets .trim()
ParameterOf_Untrimmed(match) == StripTrailingComma(match)

\* parameters.push(match.replace(/,$/, '').trim())
ParameterOf(match) == Trim(StripTrailingComma(match))

\* parseParameters(parameterString) from `position` on: `ok` is FALSE when it
\* throws BeagleParseError (no match, or an empty match, which is falsy)
RECURSIVE ParseFrom(_, _, _)
RECURSIVE ParseMatch(_, _, _, _)

\* lines 83-85 for the result m of dpa.match
ParseMatch(s, pos, acc, m) ==
  IF ~m.ok \/ m.match = <<>> THEN [ok |-> FALSE, params |-> <<>>]
  ELSE ParseFrom(s, pos + Len(m.match), Append(acc, ParameterOf(m.match)))

ParseFrom(s, pos, acc) ==
  IF pos < Len(s) THEN ParseMatch(s, pos, acc, DpaMatch(Substr(s, pos)))
  ELSE [ok |-> TRUE, params |-> acc]

parseParameters(s) == ParseFrom(s, 0, <<>>)

(***************************************************************************)
(* parseParameters, step by step: the while loop of lines 81-86 and, inside *)
(* each iteration, the transitions of dpa.match                            *)
(***************************************************************************)
ParamChars == {"a", ",", "(", ")", Quote, Backslash, " "}

\* the parameter string of the operation f('a,b', g(1,2), 'x\'y')
NestedExample ==
  << Quote, "a", ",", "b", Quote, ",", " ", "g", "(", "1", ",", "2", ")", ",", " ",
     Quote, "x", Backslash, Quote, "y", Quote >>

ParamInputs ==
  UNION {[1..n -> ParamChars] : n \in 0..MaxParamLen} \cup {NestedExample}

Idle == <<>>

ParamInit ==
  /\ parameterString \in ParamInputs
  /\ position = 0
  /\ parameters = <<>>
  /\ consumed = <<>>
  /\ delimiters = {}
  /\ currentState = "initial"
  /\ stack = <<>>
  /\ remainingInput = <<>>
  /\ pc = "loop"
  /\ data = Idle
  /\ contextHierarchy = Idle
  /\ result = Idle
  /\ segments = Idle

\* while (position < parameterString.length): dpa.match starts on the rest
LoopEnter ==
  /\ pc = "loop"
  /\ position < Len(parameterString)
  /\ currentState' = "initial"
  /\ stack' = <<>>
  /\ remainingInput' = Substr(parameterString, position)
  /\ pc' = "match"
  /\ UNCHANGED <<parameterString, position, parameters, consumed, delimiters,
                 callVars>>

\* the loop ends: return parameters
LoopExit ==
  /\ pc = "loop"
  /\ position >= Len(parameterString)
  /\ pc' = "done"
  /\ UNCHANGED <<paramVars, callVars>>

\* one transition of the automaton
DpaStep ==
  /\ pc = "match"
  /\ currentState /= "final"
  /\ \E n \in {DpaNext(currentState, stack, remainingInput)} :
        /\ n.ok
        /\ currentState' = n.state
        /\ stack' = n.stack
        /\ remainingInput' = n.input
  /\ UNCHANGED <<pc, parameterString, position, parameters, consumed, delimiters,
                 callVars>>

\* no rule applies: dpa.match gives no match, parseParameters throws
DpaReject ==
  /\ pc = "match"
  /\ currentState /= "final"
  /\ ~DpaNext(currentState, stack, remainingInput).ok
  /\ pc' = "error"
  /\ UNCHANGED <<paramVars, callVars>>

\* the final state: dpa.match returns the consumed prefix, lines 83-85
DpaAccept ==
  /\ pc = "match"
  /\ currentState = "final"
  /\ LET input == Substr(parameterString, position)
         match == Prefix(input, Len(input) - Len(remainingInput))
     IN IF match = <<>>
        THEN /\ pc' = "error"
             /\ UNCHANGED <<position, parameters, consumed, delimiters>>
        ELSE /\ pc' = "loop"
             /\ parameters' = Append(parameters, ParameterOf(match))
             /\ position' = position + Len(match)
             /\ consumed' = Append(consumed, match)
             /\ delimiters' = IF match[Len(match)] = ","
                              THEN delimiters \cup {position + Len(match)}
                              ELSE delimiters
  /\ UNCHANGED <<parameterString, currentState, stack, remainingInput,
                 callVars>>

ParamNext == LoopEnter \/ LoopExit \/ DpaStep \/ DpaReject \/ DpaAccept

\* the call is synchronous: it keeps running until it returns or throws
SpecParams == ParamInit /\ [][ParamNext]_vars /\ WF_vars(ParamNext)

(***************************************************************************)
(* Reference reading of a parameter string: a quoted string is '...' in    *)
(* which \' does not end the string; everything else is outside            *)
(***************************************************************************)
\* offset of the quote closing the quoted string opened before offset i,
\* 0 when it is never closed
RECURSIVE ClosingQuote(_, _)
ClosingQuote(s, i) ==
  IF i > Len(s) THEN 0
  ELSE IF s[i] = Quote THEN i
  ELSE IF s[i] = Backslash THEN ClosingQuote(s, i + 2)
  ELSE ClosingQuote(s, i + 1)

\* the offsets of `s` that lie in a quoted string, scanning from offset i
RECURSIVE QuotedOffsets(_, _)
QuotedOffsets(s, i) ==
  IF i > Len(s) THEN {}
  ELSE IF s[i] = Quote /\ ClosingQuote(s, i + 1) > 0
       THEN (i..ClosingQuote(s, i + 1)) \cup QuotedOffsets(s, ClosingQuote(s, i + 1) + 1)
       ELSE QuotedOffsets(s, i + 1)

\* parentheses opened and not yet closed among the first n characters of `s`,
\* quoted strings left out
OpenParens(s, n) ==
  LET outside == (1..n) \ QuotedOffsets(s, 1)
  IN Cardinality({i \in outside : s[i] = "("}) - Cardinality({i \in outside : s[i] = ")"})

\* what dpa.match is reading, and how much of it was read
MatchInput == Substr(parameterString, position)
MatchRead == Len(MatchInput) - Len(remainingInput)

(***************************************************************************)
(* Claims about parseParameters                                            *)
(***************************************************************************)
\* C2: the parameter string is split only at top-level commas: no comma that
\* ended a parameter lies in a quoted string (\' not ending the string) or in
\* a nested parenthesized list, and the parameter string of
\* f('a,b', g(1,2), 'x\'y') gives exactly its three parameters, verbatim.
C2_SplitsOnlyAtTopLevelCommas ==
  /\ \A d \in delimiters :
       /\ d \notin QuotedOffsets(parameterString, 1)
       /\ OpenParens(parameterString, d) = 0
  /\ (pc = "done" /\ parameterString = NestedExample) =>
       parameters = << <<Quote, "a", ",", "b", Quote>>,
                       <<"g", "(", "1", ",", "2", ")">>,
                       <<Quote, "x", Backslash, Quote, "y", Quote>> >>

\* C9 (state part): every match dpa.match returned is non-empty, the matches
\* are the successive pieces of the parameter string read so far, each
\* parameter is its match less a trailing comma and surrounding whitespace,
\* and a normal return has read the whole string.
C9_MatchesCoverInput ==
  /\ \A i \in 1..Len(consumed) : Len(consumed[i]) >= 1
  /\ Concat(consumed) = Prefix(parameterString, position)
  /\ Len(parameters) = Len(consumed)
  /\ \A i \in 1..Len(consumed) :
       LET m == consumed[i]
           body == IF m[Len(m)] = "," THEN SubSeq(m, 1, Len(m) - 1) ELSE m
           lead == CHOOSE k \in 0..Len(body) :
                     /\ \A j \in 1..k : body[j] = " "
                     /\ (k < Len(body) => body[k + 1] /= " ")
           rest == SubSeq(body, lead + 1, Len(body))
           keep == CHOOSE k \in 0..Len(rest) :
                     /\ \A j \in (k + 1)..Len(rest) : rest[j] = " "
                     /\ (k > 0 => rest[k] /= " ")
       IN parameters[i] = SubSeq(rest, 1, keep)
  /\ pc = "done" => position = Len(parameterString)

\* a variant of parseParameters: a natural number that every step lowers
C9_Variant ==
  LET unread == Len(parameterString) - position
      phase == CASE currentState = "isParameterListOver" -> 6
                 [] currentState = "final" -> 1
                 [] OTHER -> 5
  IN CASE pc = "loop" -> 16 * unread + 7
       [] pc = "match" -> 8 * unread + 8 * Len(remainingInput) + phase
       [] OTHER -> 0

\* C9: parseParameters terminates for every parameter string (every step
\* lowers a natural-number variant), every iteration throwing a parse error or advancing the position
\* by at least one character, and on success the matches cover the whole
\* string once, in order, one parameter per match with only the trailing
\* comma and surrounding whitespace removed.
C9_ParseParametersTerminates ==
  /\ C9_MatchesCoverInput
  /\ [][ /\ C9_MatchesCoverInput'
         /\ C9_Variant' < C9_Variant
         /\ C9_Variant' >= 0
         /\ (pc = "match" /\ pc' = "loop") =>
              (position' > position /\ position' <= Len(parameterString)) ]_vars

\* C9 witness: a normal return after several iterations, one of which
\* removed a comma and whitespace
C9_Witness ==
  /\ pc = "done"
  /\ Len(consumed) >= 2
  /\ \E i \in 1..Len(consumed) : Len(parameters[i]) + 2 <= Len(consumed[i])

\* every quote of `s` belongs to a quoted string
WellQuoted(s) == \A i \in 1..Len(s) : s[i] = Quote => i \in QuotedOffsets(s, 1)

\* C10: in every configuration of the automaton the stack holds one "(" per
\* parenthesis opened and not yet closed outside quoted strings; state
\* initial goes with an empty stack, insideParameterList with a non-empty
\* one, final with an empty one; and a match never has an unclosed "(" or an
\* unmatched ")".  Stated for the parameter strings whose quotes all belong
\* to quoted strings.
C10_StackCountsOpenParens ==
  WellQuoted(parameterString) =>
    /\ pc = "match" =>
         /\ \A i \in 1..Len(stack) : stack[i] = "("
         /\ Len(stack) = OpenParens(MatchInput, MatchRead)
         /\ currentState = "initial" => stack = <<>>
         /\ currentState = "insideParameterList" => stack /= <<>>
         /\ currentState = "final" => stack = <<>>
    /\ \A i \in 1..Len(consumed) :
         /\ OpenParens(consumed[i], Len(consumed[i])) = 0
         /\ \A n \in 1..Len(consumed[i]) : OpenParens(consumed[i], n) >= 0

(***************************************************************************)
(* Values: a JavaScript value is a record tagged by `t`                    *)
(***************************************************************************)
Undefined == [t |-> "undefined"]
Null == [t |-> "null"]
NaN == [t |-> "NaN"]
Bool(b) == [t |-> "boolean", b |-> b]
\* the number m / 10^e, m not a multiple of 10 unless e = 0
Num(m, e) == [t |-> "number", m |-> m, e |-> e]
Str(s) == [t |-> "string", s |-> s]
\* an object: its own keys in insertion order, kv a sequence of [k, v]
Obj(kv) == [t |-> "object", kv |-> kv]
Arr(items) == [t |-> "array", items |-> items]

KV(k, v) == [k |-> k, v |-> v]

\* obj[key]: Undefined when the key is absent
RECURSIVE FieldFrom(_, _, _)
FieldFrom(kv, key, i) ==
  IF i > Len(kv) THEN Undefined
  ELSE IF kv[i].k = key THEN kv[i].v
  ELSE FieldFrom(kv, key, i + 1)

Field(obj, key) == FieldFrom(obj.kv, key, 1)

Digits == {"0", "1", "2", "3", "4", "5", "6", "7", "8", "9"}
LowerCase == {"a", "b", "c", "d", "e", "f", "g", "h", "i", "j", "k", "l", "m",
              "n", "o", "p", "q", "r", "s", "t", "u", "v", "w", "x", "y", "z"}
UpperCase == {"A", "B", "C", "D", "E", "F", "G", "H", "I", "J", "K", "L", "M",
              "N", "O", "P", "Q", "R", "S", "T", "U", "V", "W", "X", "Y", "Z"}

\* the class \d
IsDigit(c) == c \in Digits

\* the class \w
IsWord(c) == c \in LowerCase \cup UpperCase \cup Digits \cup {"_"}

DigitValue(c) ==
  CASE c = "0" -> 0 [] c = "1" -> 1 [] c = "2" -> 2 [] c = "3" -> 3 [] c = "4" -> 4
    [] c = "5" -> 5 [] c = "6" -> 6 [] c = "7" -> 7 [] c = "8" -> 8 [] c = "9" -> 9

DigitChar(d) == <<"0", "1", "2", "3", "4", "5", "6", "7", "8", "9">>[d + 1]

RECURSIVE DigitsToNat(_)
DigitsToNat(ds) ==
  IF ds = <<>> THEN 0
  ELSE 10 * DigitsToNat(SubSeq(ds, 1, Len(ds) - 1)) + DigitValue(ds[Len(ds)])

RECURSIVE NatToDigits(_)
NatToDigits(n) ==
  IF n < 10 THEN <<DigitChar(n)>> ELSE Append(NatToDigits(n \div 10), DigitChar(n % 10))

\* the number m / 10^e in lowest terms of 10
RECURSIVE Normal(_, _)
Normal(m, e) == IF e > 0 /\ m % 10 = 0 THEN Normal(m \div 10, e - 1) ELSE Num(m, e)

RECURSIVE Pow10(_)
Pow10(e) == IF e = 0 THEN 1 ELSE 10 * Pow10(e - 1)

\* a + b on numbers
NumAdd(a, b) ==
  LET e == IF a.e > b.e THEN a.e ELSE b.e
  IN Normal(a.m * Pow10(e - a.e) + b.m * Pow10(e - b.e), e)

RECURSIVE ZeroPad(_, _)
ZeroPad(ds, n) == IF Len(ds) >= n THEN ds ELSE ZeroPad(<<"0">> \o ds, n)

\* String(x) of a number
NumToString(x) ==
  IF x.e = 0 THEN NatToDigits(x.m)
  ELSE LET ds == ZeroPad(NatToDigits(x.m), x.e + 1)
       IN SubSeq(ds, 1, Len(ds) - x.e) \o <<".">> \o SubSeq(ds, Len(ds) - x.e + 1, Len(ds))

(***************************************************************************)
(* getLiteralValue                                                         *)
(***************************************************************************)
\* offset after the run of digits that starts at offset i
RECURSIVE DigitRun(_, _)
DigitRun(s, i) == IF i <= Len(s) /\ IsDigit(s[i]) THEN DigitRun(s, i + 1) ELSE i

\* literal.match(/^\d+(\.\d+)?$/)
IsNumberLiteral(s) ==
  LET i == DigitRun(s, 1)
  IN /\ i > 1
     /\ \/ i = Len(s) + 1
        \/ /\ i <= Len(s)
           /\ s[i] = "."
           /\ DigitRun(s, i + 1) > i + 1
           /\ DigitRun(s, i + 1) = Len(s) + 1

\* parseFloat of a string that matched the number pattern
ParseFloat(s) ==
  LET i == DigitRun(s, 1)
      int == SubSeq(s, 1, i - 1)
      frac == IF i <= Len(s) THEN SubSeq(s, i + 1, Len(s)) ELSE <<>>
  IN Normal(DigitsToNat(int \o frac), Len(frac))

\* .replace(/(^')|('$)/g, ''): the quote at the start goes, then a quote at
\* the end of what follows it
StripQuotes(s) ==
  LET rest == IF s /= <<>> /\ s[1] = Quote THEN Tail(s) ELSE s
  IN IF rest /= <<>> /\ rest[Len(rest)] = Quote
     THEN SubSeq(rest, 1, Len(rest) - 1)
     ELSE rest

\* .replace(/\\'/g, '\'')
RECURSIVE UnescapeQuotes(_)
UnescapeQuotes(s) ==
  IF s = <<>> THEN <<>>
  ELSE IF Len(s) >= 2 /\ s[1] = Backslash /\ s[2] = Quote
       THEN <<Quote>> \o UnescapeQuotes(SubSeq(s, 3, Len(s)))
       ELSE <<s[1]>> \o UnescapeQuotes(Tail(s))

getLiteralValue(literal) ==
  IF literal = <<"t", "r", "u", "e">> THEN Bool(TRUE)
  ELSE IF literal = <<"f", "a", "l", "s", "e">> THEN Bool(FALSE)
  ELSE IF literal = <<"n", "u", "l", "l">> THEN Null
  ELSE IF IsNumberLiteral(literal) THEN ParseFloat(literal)
  ELSE IF StartsWith(literal, <<Quote>>) /\ EndsWith(literal, <<Quote>>)
       THEN Str(UnescapeQuotes(StripQuotes(literal)))
  ELSE Undefined

(***************************************************************************)
(* getBindingValue                                                         *)
(***************************************************************************)
\* a context of the hierarchy is [id |-> string, value |-> value]; the
\* hierarchy is a sequence of contexts, the innermost last
Context(id, value) == [id |-> id, value |-> value]

\* getContextInHierarchy: the innermost context with that id, Undefined when
\* there is none
RECURSIVE FindContext(_, _, _)
FindContext(hierarchy, id, i) ==
  IF i = 0 THEN Undefined
  ELSE IF hierarchy[i].id = id THEN hierarchy[i]
  ELSE FindContext(hierarchy, id, i - 1)

getContextInHierarchy(hierarchy, id) == FindContext(hierarchy, id, Len(hierarchy))

\* offset after the run of \w characters that starts at offset i
RECURSIVE WordRun(_, _)
WordRun(s, i) == IF i <= Len(s) /\ IsWord(s[i]) THEN WordRun(s, i + 1) ELSE i

\* offset after the groups (\[\d+\])* that start at offset i
RECURSIVE IndexGroups(_, _)
IndexGroups(s, i) ==
  IF i <= Len(s) /\ s[i] = "["
  THEN LET j == DigitRun(s, i + 1)
       IN IF j > i + 1 /\ j <= Len(s) /\ s[j] = "]" THEN IndexGroups(s, j + 1) ELSE i
  ELSE i

\* [\w\d_]+(\[\d+\])*(\.([\w\d_]+(\[\d+\])*))*$ from offset i
RECURSIVE PathSegments(_, _)
PathSegments(s, i) ==
  LET j == WordRun(s, i)
      k == IndexGroups(s, j)
  IN /\ j > i
     /\ \/ k = Len(s) + 1
        \/ k <= Len(s) /\ s[k] = "." /\ PathSegments(s, k + 1)

\* path.match(/^[\w\d_]+(\[\d+\])*(\.([\w\d_]+(\[\d+\])*))*$/)
IsValidPath(path) == PathSegments(path, 1)

\* offset after the run of [^\.\[\]] characters that starts at offset i
RECURSIVE IdRun(_, _)
IdRun(s, i) ==
  IF i <= Len(s) /\ s[i] \notin {".", "[", "]"} THEN IdRun(s, i + 1) ELSE i

\* path.match(/^([^\.\[\]]+)\.?(.*)/): [1] and [2]
PathContextId(path) == SubSeq(path, 1, IdRun(path, 1) - 1)

PathContextPath(path) ==
  LET i == IdRun(path, 1)
  IN IF i <= Len(path) /\ path[i] = "." THEN SubSeq(path, i + 1, Len(path))
     ELSE SubSeq(path, i, Len(path))

\* lodash's string-to-path: the keys of "a.b[0].c" are a, b, 0, c
RECURSIVE PathKeys(_, _, _)
PathKeys(s, i, key) ==
  IF i > Len(s) THEN (IF key = <<>> THEN <<>> ELSE <<key>>)
  ELSE IF s[i] \in {".", "[", "]"}
       THEN (IF key = <<>> THEN <<>> ELSE <<key>>) \o PathKeys(s, i + 1, <<>>)
       ELSE PathKeys(s, i + 1, Append(key, s[i]))

\* value[key] for an own key of an object or an index of an array
Property(value, key) ==
  IF value.t = "object" THEN Field(value, key)
  ELSE IF value.t = "array" /\ key /= <<>> /\ (\A i \in 1..Len(key) : IsDigit(key[i]))
            /\ DigitsToNat(key) < Len(value.items)
       THEN value.items[DigitsToNat(key) + 1]
  ELSE Undefined

\* lodash get(value, path): Undefined as soon as a step finds nothing
RECURSIVE GetIn(_, _)
GetIn(value, keys) ==
  IF keys = <<>> THEN value
  ELSE IF value.t \in {"undefined", "null"} THEN Undefined
  ELSE GetIn(Property(value, Head(keys)), Tail(keys))

get(value, path) == GetIn(value, PathKeys(path, 1, <<>>))

\* an outcome of a call: err is "" for a normal return with value v,
\* otherwise the error thrown
Return(v) == [err |-> "", v |-> v]
Throw(e) == [err |-> e, v |-> Undefined]

\* lines 43-45 for the context found
ContextValue(context, contextPath) ==
  IF context = Undefined THEN Return(Undefined)
  ELSE IF contextPath /= <<>> THEN Return(get(context.value, contextPath))
  ELSE Return(context.value)

getBindingValue(path, hierarchy) ==
  IF ~IsValidPath(path) THEN Throw("BeagleParseError")
  ELSE ContextValue(getContextInHierarchy(hierarchy, PathContextId(path)),
                    PathContextPath(path))

(***************************************************************************)
(* getOperationValue and evaluateExpression                                *)
(***************************************************************************)
\* the operation registry: the names registered
OperationNames == { <<"s", "u", "m">> }

\* operations[name](...args); sum adds its arguments
RECURSIVE SumFrom(_, _, _)
SumFrom(args, i, acc) ==
  IF i > Len(args) THEN acc
  ELSE IF acc.t = "number" /\ args[i].t = "number"
       THEN SumFrom(args, i + 1, NumAdd(acc, args[i]))
       ELSE NaN

CallOperation(name, args) == SumFrom(args, 1, Num(0, 0))

\* operation.match(/^(\w[\w\d_]*)\((.*)\)$/)
IsOperationCall(operation) ==
  LET i == WordRun(operation, 1)
  IN /\ i > 1
     /\ i <= Len(operation)
     /\ operation[i] = "("
     /\ operation[Len(operation)] = ")"
     /\ Len(operation) > i
     /\ \A j \in 1..Len(operation) : operation[j] /= "\n"

OperationName(operation) == SubSeq(operation, 1, WordRun(operation, 1) - 1)

OperationParams(operation) ==
  SubSeq(operation, WordRun(operation, 1) + 1, Len(operation) - 1)

\* the first outcome that threw, in order; none when `outs` has no throw
RECURSIVE FirstThrow(_, _)
FirstThrow(outs, i) ==
  IF i > Len(outs) THEN Return(Undefined)
  ELSE IF outs[i].err /= "" THEN outs[i]
  ELSE FirstThrow(outs, i + 1)

RECURSIVE evaluateExpression(_, _)
RECURSIVE getOperationValue(_, _)
RECURSIVE ResolveParams(_, _, _)

\* operations[operationName](...resolvedParams), unless the evaluation of a
\* parameter threw: the first throw ends the call
ApplyOperation(name, resolved) ==
  IF FirstThrow(resolved, 1).err /= "" THEN FirstThrow(resolved, 1)
  ELSE Return(CallOperation(name, [i \in 1..Len(resolved) |-> resolved[i].v]))

\* lines 100-104 for the result of parseParameters
ResolveParams(name, parsed, hierarchy) ==
  IF ~parsed.ok THEN Throw("BeagleParseError")
  ELSE ApplyOperation(name, [i \in 1..Len(parsed.params) |->
                               evaluateExpression(parsed.params[i], hierarchy)])

getOperationValue(operation, hierarchy) ==
  IF ~IsOperationCall(operation) THEN Throw("BeagleParseError")
  ELSE IF OperationName(operation) \notin OperationNames THEN Throw("BeagleNotFoundError")
  ELSE ResolveParams(OperationName(operation),
                     parseParameters(OperationParams(operation)), hierarchy)

\* lines 124-130 for the result of getLiteralValue
EvaluateNonLiteral(literalValue, expression, hierarchy) ==
  IF literalValue /= Undefined THEN Return(literalValue)
  ELSE IF \E i \in 1..Len(expression) : expression[i] = "("
       THEN getOperationValue(expression, hierarchy)
  ELSE getBindingValue(expression, hierarchy)

evaluateExpression(expression, hierarchy) ==
  EvaluateNonLiteral(getLiteralValue(expression), expression, hierarchy)

(***************************************************************************)
(* replaceBindingsInString                                                 *)
(***************************************************************************)
\* '([^'\\]|\\.)*' at offset i of `s`: the offset after the closing quote,
\* 0 for no match
RECURSIVE BindingQuoted(_, _)
BindingQuoted(s, i) ==
  IF i > Len(s) THEN 0
  ELSE IF s[i] = Quote THEN i + 1
  ELSE IF s[i] = Backslash
       THEN (IF i + 1 <= Len(s) /\ s[i + 1] /= "\n" THEN BindingQuoted(s, i + 2) ELSE 0)
  ELSE BindingQuoted(s, i + 1)

\* (([^'\}]|('([^'\\]|\\.)*'))*)\} from offset i of `s`: the offset of the
\* closing brace, 0 for no match
RECURSIVE BindingBody(_, _)
BindingBody(s, i) ==
  IF i > Len(s) THEN 0
  ELSE IF s[i] = "}" THEN i
  ELSE IF s[i] = Quote
       THEN (IF BindingQuoted(s, i + 1) = 0 THEN 0
             ELSE BindingBody(s, BindingQuoted(s, i + 1)))
  ELSE BindingBody(s, i + 1)

\* offset after the run of backslashes that starts at offset i
RECURSIVE SlashRun(_, _)
SlashRun(s, i) == IF i <= Len(s) /\ s[i] = Backslash THEN SlashRun(s, i + 1) ELSE i

\* a variant of IsFullBinding whose pattern never matches
IsFullBinding_Never(str) == FALSE

\* str.match(fullBindingRegex)
IsFullBinding(str) ==
  /\ Len(str) >= 3
  /\ str[1] = "@"
  /\ str[2] = "{"
  /\ BindingBody(str, 3) = Len(str)

\* fullMatch[1]
FullBindingPath(str) == SubSeq(str, 3, Len(str) - 1)

\* bindingRegex tried at offset p: the offset of the closing brace of the
\* match that starts there, 0 when none does
BindingAt(s, p) ==
  LET a == SlashRun(s, p)
  IN IF a + 1 <= Len(s) /\ s[a] = "@" /\ s[a + 1] = "{" THEN BindingBody(s, a + 2) ELSE 0

RECURSIVE Repeat(_, _)
Repeat(c, n) == IF n <= 0 THEN <<>> ELSE <<c>> \o Repeat(c, n - 1)

\* a variant of ScapedSlashes that leaves the pairs as they are
ScapedSlashes_Unhalved(slashes) == slashes

\* slashes.replace(/\\\\/g, '\\'): every pair becomes one backslash
ScapedSlashes(slashes) == Repeat(Backslash, (Len(slashes) + 1) \div 2)

\* JSON.stringify of a string
RECURSIVE JsonEscape(_)
JsonEscape(s) ==
  IF s = <<>> THEN <<>>
  ELSE (IF s[1] \in {"\"", Backslash} THEN <<Backslash, s[1]>> ELSE <<s[1]>>)
         \o JsonEscape(Tail(s))

RECURSIVE JsonStringify(_)
RECURSIVE JsonMembers(_, _, _)
RECURSIVE JsonItems(_, _)

\* the members of an object from index i on; a member whose value is
\* undefined is left out
JsonMembers(kv, i, first) ==
  IF i > Len(kv) THEN <<>>
  ELSE IF kv[i].v = Undefined THEN JsonMembers(kv, i + 1, first)
  ELSE (IF first THEN <<>> ELSE <<",">>)
         \o <<"\"">> \o JsonEscape(kv[i].k) \o <<"\"", ":">> \o JsonStringify(kv[i].v)
         \o JsonMembers(kv, i + 1, FALSE)

JsonItems(items, i) ==
  IF i > Len(items) THEN <<>>
  ELSE (IF i > 1 THEN <<",">> ELSE <<>>) \o JsonStringify(items[i]) \o JsonItems(items, i + 1)

JsonStringify(v) ==
  CASE v.t = "object" -> <<"{">> \o JsonMembers(v.kv, 1, TRUE) \o <<"}">>
    [] v.t = "array" -> <<"[">> \o JsonItems(v.items, 1) \o <<"]">>
    [] v.t = "string" -> <<"\"">> \o JsonEscape(v.s) \o <<"\"">>
    [] v.t = "number" -> NumToString(v)
    [] v.t = "boolean" -> (IF v.b THEN <<"t", "r", "u", "e">> ELSE <<"f", "a", "l", "s", "e">>)
    [] OTHER -> <<"n", "u", "l", "l">>

\* typeof bindingValue === 'object' ? JSON.stringify(bindingValue) : bindingValue,
\* as the template literal renders it
AsString(v) ==
  CASE v.t \in {"object", "array", "null"} -> JsonStringify(v)
    [] v.t = "string" -> v.s
    [] v.t = "number" -> NumToString(v)
    [] v.t = "boolean" -> (IF v.b THEN <<"t", "r", "u", "e">> ELSE <<"f", "a", "l", "s", "e">>)
    [] v.t = "NaN" -> <<"N", "a", "N">>
    [] OTHER -> <<"u", "n", "d", "e", "f", "i", "n", "e", "d">>

\* try { bindingValue = evaluateExpression(...) } catch: undefined on a throw
BindingValueOf(out) == IF out.err /= "" THEN Undefined ELSE out.v

\* an escaped binding, line 148: the halved backslashes less the last, and
\* the text of the binding
EscapedBinding(scaped, path) ==
  SubSeq(scaped, 1, Len(scaped) - 1) \o <<"@", "{">> \o path \o <<"}">>

\* line 156
Replacement(bindingStr, slashes, bindingValue) ==
  IF bindingValue = Undefined THEN bindingStr
  ELSE ScapedSlashes(slashes) \o AsString(bindingValue)

\* a variant of ReplaceBinding without the test for undefined
ReplaceBinding_NoUndefinedTest(bindingStr, slashes, path, hierarchy) ==
  IF Len(slashes) % 2 = 1 THEN EscapedBinding(ScapedSlashes(slashes), path)
  ELSE ScapedSlashes(slashes)
         \o AsString(BindingValueOf(evaluateExpression(path, hierarchy)))

\* the callback of str.replace(bindingRegex, ...), lines 145-157
ReplaceBinding(bindingStr, slashes, path, hierarchy) ==
  IF Len(slashes) % 2 = 1 THEN EscapedBinding(ScapedSlashes(slashes), path)
  ELSE Replacement(bindingStr, slashes,
                   BindingValueOf(evaluateExpression(path, hierarchy)))

\* str.replace(bindingRegex, ...) from offset p on: the leftmost match is
\* replaced, the scan goes on after it
RECURSIVE ReplaceAll(_, _, _)
RECURSIVE ReplaceAt(_, _, _, _, _)

\* the scan at offset p, where the backslashes end at offset a and the match
\* that starts at p, if any, ends at offset close
ReplaceAt(s, p, a, close, hierarchy) ==
  IF close = 0 THEN <<s[p]>> \o ReplaceAll(s, p + 1, hierarchy)
  ELSE ReplaceBinding(SubSeq(s, p, close), SubSeq(s, p, a - 1),
                      SubSeq(s, a + 2, close - 1), hierarchy)
         \o ReplaceAll(s, close + 1, hierarchy)

ReplaceAll(s, p, hierarchy) ==
  IF p > Len(s) THEN <<>>
  ELSE ReplaceAt(s, p, SlashRun(s, p), BindingAt(s, p), hierarchy)

\* lines 136-142 for the outcome of evaluateExpression
FullBindingValue(str, out) ==
  IF out.err /= "" THEN Str(str)
  ELSE IF out.v = Undefined THEN Str(str) ELSE out.v

\* the value returned: it never throws
replaceBindingsInString(str, hierarchy) ==
  IF IsFullBinding(str)
  THEN FullBindingValue(str, evaluateExpression(FullBindingPath(str), hierarchy))
  ELSE Str(ReplaceAll(str, 1, hierarchy))

(***************************************************************************)
(* replaceBindings                                                         *)
(***************************************************************************)
KeyId == <<"i", "d">>
KeyContext == <<"c", "o", "n", "t", "e", "x", "t">>
KeyValue == <<"v", "a", "l", "u", "e">>
KeyComponent == <<"_", "b", "e", "a", "g", "l", "e", "C", "o", "m", "p", "o", "n", "e", "n", "t", "_">>
KeySpaceComponent == <<" ">> \o KeyComponent

\* a variant of IgnoredKeys with the component key spelled without the space
IgnoredKeys_NoSpace == {KeyId, KeyComponent, KeyContext}

\* const ignore = ['id', ' _beagleComponent_', 'context']
IgnoredKeys == {KeyId, KeySpaceComponent, KeyContext}

\* getContextHierarchy(data, contextHierarchy): a node that has a context
\* gives its children the hierarchy extended by it, in a new sequence
getContextHierarchy(node, hierarchy) ==
  LET c == Field(node, KeyContext)
  IN IF c.t = "object" /\ Field(c, KeyId).t = "string"
     THEN Append(hierarchy, Context(Field(c, KeyId).s, Field(c, KeyValue)))
     ELSE hierarchy

\* the path element of array index i
IndexKey(i) == <<"#">> \o NatToDigits(i)

\* an outcome of replaceBindings: err and v as above, and `calls`, the
\* history of the calls of replaceBindingsInString it made:
\* [path, str, hierarchy]
Outcome(err, v, calls) == [err |-> err, v |-> v, calls |-> calls]

RECURSIVE replaceBindingsAt(_, _, _)
RECURSIVE MapItems(_, _, _, _, _, _)
RECURSIVE MapItem(_, _, _, _, _, _, _)
RECURSIVE ReduceKeys(_, _, _, _, _, _)
RECURSIVE ReduceKey(_, _, _, _, _, _, _)

\* the map goes on after item i gave outcome `out`, unless it threw
MapItem(items, i, hierarchy, path, acc, calls, out) ==
  IF out.err /= "" THEN Outcome(out.err, Undefined, calls \cup out.calls)
  ELSE MapItems(items, i + 1, hierarchy, path, Append(acc, out.v), calls \cup out.calls)

\* data.map(item => replaceBindings(item, contextHierarchy)) from index i on
MapItems(items, i, hierarchy, path, acc, calls) ==
  IF i > Len(items) THEN Outcome("", Arr(acc), calls)
  ELSE MapItem(items, i, hierarchy, path, acc, calls,
               replaceBindingsAt(items[i], hierarchy, Append(path, IndexKey(i - 1))))

\* the reduce goes on after key i gave outcome `out`, unless it threw
ReduceKey(kv, i, hierarchy, path, acc, calls, out) ==
  IF out.err /= "" THEN Outcome(out.err, Undefined, calls \cup out.calls)
  ELSE ReduceKeys(kv, i + 1, hierarchy, path, Append(acc, KV(kv[i].k, out.v)),
                  calls \cup out.calls)

\* Object.keys(data).reduce(...) from key i on
ReduceKeys(kv, i, hierarchy, path, acc, calls) ==
  IF i > Len(kv) THEN Outcome("", Obj(acc), calls)
  ELSE IF kv[i].k \in IgnoredKeys
       THEN ReduceKeys(kv, i + 1, hierarchy, path, Append(acc, kv[i]), calls)
  ELSE ReduceKey(kv, i, hierarchy, path, acc, calls,
                 replaceBindingsAt(kv[i].v, hierarchy, Append(path, kv[i].k)))

\* a variant of replaceBindingsAt that hands the children of an object the
\* hierarchy it was called with
replaceBindingsAt_ParentHierarchy(node, hierarchy, path) ==
  IF node.t = "string"
  THEN Outcome("", replaceBindingsInString(node.s, hierarchy),
               {[path |-> path, str |-> node.s, hierarchy |-> hierarchy]})
  ELSE IF node.t = "array" THEN MapItems(node.items, 1, hierarchy, path, <<>>, {})
  ELSE IF node.t = "null" THEN Outcome("TypeError", Undefined, {})
  ELSE IF node.t = "object" THEN ReduceKeys(node.kv, 1, hierarchy, path, <<>>, {})
  ELSE Outcome("", node, {})

\* replaceBindings(data, contextHierarchy) for the node at `path`
replaceBindingsAt(node, hierarchy, path) ==
  IF node.t = "string"
  THEN Outcome("", replaceBindingsInString(node.s, hierarchy),
               {[path |-> path, str |-> node.s, hierarchy |-> hierarchy]})
  ELSE IF node.t = "array" THEN MapItems(node.items, 1, hierarchy, path, <<>>, {})
  ELSE IF node.t = "null" THEN Outcome("TypeError", Undefined, {})
  ELSE IF node.t = "object"
       THEN ReduceKeys(node.kv, 1, getContextHierarchy(node, hierarchy), path, <<>>, {})
  ELSE Outcome("", node, {})

replaceBindings(tree, hierarchy) == replaceBindingsAt(tree, hierarchy, <<>>)

(***************************************************************************)
(* Calls of the pure functions: the inputs                                 *)
(***************************************************************************)
\* the hierarchy the calls are checked with, the innermost context last;
\* the outer n is shadowed by the inner one
FullHierarchy ==
  << Context(<<"n">>, Num(1, 0)),
     Context(<<"u", "s", "e", "r">>, Obj(<<KV(<<"n", "a", "m", "e">>, Str(<<"A", "n", "a">>))>>)),
     Context(<<"n">>, Num(7, 0)),
     Context(<<"b">>, Bool(FALSE)),
     Context(<<"z">>, Null),
     Context(<<"l">>, Arr(<<Num(1, 0), Str(<<"a">>)>>)) >>

HierarchyInputs == { <<>>, FullHierarchy }

\* expressions with, written out by hand, what each is to evaluate to under
\* FullHierarchy: the typed value and its text inside a larger string, or
\* why it has no value.  An expression that needs a context has no value
\* under the empty hierarchy.
ExprCases ==
  <<
     [src |-> <<"u", "s", "e", "r", ".", "n", "a", "m", "e">>,
      resolves |-> TRUE, needsContext |-> TRUE, why |-> "",
      value |-> Str(<<"A", "n", "a">>),
      text |-> <<"A", "n", "a">>],
     [src |-> <<"n">>,
      resolves |-> TRUE, needsContext |-> TRUE, why |-> "",
      value |-> Num(7, 0),
      text |-> <<"7">>],
     [src |-> <<"b">>,
      resolves |-> TRUE, needsContext |-> TRUE, why |-> "",
      value |-> Bool(FALSE),
      text |-> <<"f", "a", "l", "s", "e">>],
     [src |-> <<"z">>,
      resolves |-> TRUE, needsContext |-> TRUE, why |-> "",
      value |-> Null,
      text |-> <<"n", "u", "l", "l">>],
     [src |-> <<"u", "s", "e", "r">>,
      resolves |-> TRUE, needsContext |-> TRUE, why |-> "",
      value |-> Obj(<<KV(<<"n", "a", "m", "e">>, Str(<<"A", "n", "a">>))>>),
      text |-> <<"{", "\"", "n", "a", "m", "e", "\"", ":", "\"", "A", "n", "a", "\"", "}">>],
     [src |-> <<"l">>,
      resolves |-> TRUE, needsContext |-> TRUE, why |-> "",
      value |-> Arr(<<Num(1, 0), Str(<<"a">>)>>),
      text |-> <<"[", "1", ",", "\"", "a", "\"", "]">>],
     [src |-> <<"l", "[", "1", "]">>,
      resolves |-> TRUE, needsContext |-> TRUE, why |-> "",
      value |-> Str(<<"a">>),
      text |-> <<"a">>],
     [src |-> <<"s", "u", "m", "(", "1", ",", " ", "s", "u", "m", "(", "2", ",", "3", ".", "5", ")", ")">>,
      resolves |-> TRUE, needsContext |-> FALSE, why |-> "",
      value |-> Num(65, 1),
      text |-> <<"6", ".", "5">>],
     [src |-> <<Quote, "}", Quote>>,
      resolves |-> TRUE, needsContext |-> FALSE, why |-> "",
      value |-> Str(<<"}">>),
      text |-> <<"}">>],
     [src |-> <<"t", "r", "u", "e">>,
      resolves |-> TRUE, needsContext |-> FALSE, why |-> "",
      value |-> Bool(TRUE),
      text |-> <<"t", "r", "u", "e">>],
     [src |-> <<"m", "i", "s", "s", "i", "n", "g", "(", "1", ")">>,
      resolves |-> FALSE, needsContext |-> FALSE, why |-> "BeagleNotFoundError",
      value |-> Undefined, text |-> <<>>],
     [src |-> <<"s", "u", "m", "(", "(", "1", ")">>,
      resolves |-> FALSE, needsContext |-> FALSE, why |-> "BeagleParseError",
      value |-> Undefined, text |-> <<>>],
     [src |-> <<"u", "s", "e", "r", ".", ".", "n", "a", "m", "e">>,
      resolves |-> FALSE, needsContext |-> FALSE, why |-> "BeagleParseError",
      value |-> Undefined, text |-> <<>>],
     [src |-> <<"n", "o", "p", "e">>,
      resolves |-> FALSE, needsContext |-> FALSE, why |-> "undefined",
      value |-> Undefined, text |-> <<>>]
  >>

\* whether expression case i has a value under hierarchy h
CaseResolves(i, h) == ExprCases[i].resolves /\ (ExprCases[i].needsContext => h /= <<>>)

Text(s) == [kind |-> "text", n |-> 0, i |-> 0, s |-> s]
\* the binding @{ExprCases[i].src} with n backslashes in front
Binding(n, i) == [kind |-> "binding", n |-> n, i |-> i, s |-> ExprCases[i].src]

\* the string a segment stands for
SegmentString(seg) ==
  IF seg.kind = "text" THEN seg.s
  ELSE Repeat(Backslash, seg.n) \o <<"@", "{">> \o seg.s \o <<"}">>

SegmentsString(segs) == Concat([k \in 1..Len(segs) |-> SegmentString(segs[k])])

BindingSegments == {Binding(n, i) : n \in 0..MaxSlashes, i \in 1..Len(ExprCases)}

\* a string is text, a binding or nothing, text, a binding or nothing, text
SegmentInputs ==
  { <<Text(pre), b1, Text(mid), b2, Text(post)>> :
      pre \in {<<>>, <<"H", "i", " ">>}, b1 \in BindingSegments \cup {Text(<<>>)},
      mid \in {<<>>, <<"x">>}, b2 \in BindingSegments \cup {Text(<<>>)},
      post \in {<<>>, <<"!">>} }

StringInit ==
  /\ segments \in SegmentInputs
  /\ data = SegmentsString(segments)
  /\ contextHierarchy \in HierarchyInputs
  /\ result = Idle
  /\ pc = "call"
  /\ parameterString = Idle
  /\ position = 0
  /\ parameters = Idle
  /\ consumed = Idle
  /\ delimiters = {}
  /\ currentState = "initial"
  /\ stack = Idle
  /\ remainingInput = Idle

\* replaceBindingsInString(data, contextHierarchy) returns
CallReplaceBindingsInString ==
  /\ pc = "call"
  /\ result' = replaceBindingsInString(data, contextHierarchy)
  /\ pc' = "returned"
  /\ UNCHANGED <<paramVars, data, contextHierarchy, segments>>

StringNext == CallReplaceBindingsInString

SpecString == StringInit /\ [][StringNext]_vars

(***************************************************************************)
(* Claims about replaceBindingsInString                                    *)
(***************************************************************************)
BindingCount == Cardinality({k \in 1..Len(segments) : segments[k].kind = "binding"})

\* the input is one binding and nothing else
IsWholeStringBinding ==
  /\ BindingCount = 1
  /\ \A k \in 1..Len(segments) :
       IF segments[k].kind = "binding" THEN segments[k].n = 0 ELSE segments[k].s = <<>>

TheBinding == segments[CHOOSE k \in 1..Len(segments) : segments[k].kind = "binding"]

\* what an occurrence with n backslashes is to become: the backslashes halved
\* and the text left unresolved (n odd), the backslashes halved and the value
\* as text (n even, a value), the occurrence as it was (n even, no value)
PieceAmended(seg, h) ==
  IF seg.kind = "text" THEN seg.s
  ELSE IF seg.n % 2 = 1
       THEN Repeat(Backslash, seg.n \div 2) \o <<"@", "{">> \o seg.s \o <<"}">>
  ELSE IF CaseResolves(seg.i, h)
       THEN Repeat(Backslash, seg.n \div 2) \o ExprCases[seg.i].text
  ELSE Repeat(Backslash, seg.n) \o <<"@", "{">> \o seg.s \o <<"}">>

\* the same, but with the backslashes halved in every case: an occurrence
\* that has no value keeps its @{expr} text after floor(n/2) backslashes
PieceAsClaimed(seg, h) ==
  IF seg.kind = "text" THEN seg.s
  ELSE IF seg.n % 2 = 0 /\ CaseResolves(seg.i, h)
       THEN Repeat(Backslash, seg.n \div 2) \o ExprCases[seg.i].text
  ELSE Repeat(Backslash, seg.n \div 2) \o <<"@", "{">> \o seg.s \o <<"}">>

\* C3 as stated: an occurrence of @{expr} after n backslashes, in a string
\* that is not one whole-string binding, becomes floor(n/2) backslashes and
\* then the resolved value (n even) or the literal @{expr} (n odd).
C3_AsClaimed ==
  (pc = "returned" /\ BindingCount = 1 /\ ~IsWholeStringBinding) =>
     result = Str(Concat([k \in 1..Len(segments) |->
                            PieceAsClaimed(segments[k], contextHierarchy)]))

\* C3 amended: ... becomes floor(n/2) backslashes and the literal @{expr}
\* when n is odd, floor(n/2) backslashes and the value as text when n is even
\* and expr evaluates to a value, and stays as it was, all n backslashes
\* included, when n is even and the evaluation throws or yields undefined.
C3_EscapingHalvesBackslashes ==
  (pc = "returned" /\ BindingCount = 1 /\ ~IsWholeStringBinding) =>
     result = Str(Concat([k \in 1..Len(segments) |->
                            PieceAmended(segments[k], contextHierarchy)]))

\* C3 witness: an occurrence after two backslashes was resolved and one
\* backslash is left in front of its value
C3_Witness ==
  /\ pc = "returned"
  /\ BindingCount = 1
  /\ TheBinding.n = 2
  /\ CaseResolves(TheBinding.i, contextHierarchy)
  /\ result = Str(segments[1].s \o <<Backslash>> \o ExprCases[TheBinding.i].text
                    \o segments[3].s \o segments[5].s)

\* C4: a string that is exactly one binding @{expr} gives the typed value of
\* expr (a number, boolean, null, object or array as it is, not its text),
\* and the string itself when the evaluation throws or yields undefined.
C4_WholeStringBindingIsTyped ==
  (pc = "returned" /\ IsWholeStringBinding) =>
     result = IF CaseResolves(TheBinding.i, contextHierarchy)
              THEN ExprCases[TheBinding.i].value
              ELSE Str(data)

\* C4 witness: a whole-string binding returned an object
C4_Witness ==
  /\ pc = "returned"
  /\ IsWholeStringBinding
  /\ result.t = "object"

\* C8: in a string with several occurrences each is resolved on its own: one
\* whose evaluation throws (parse error, not-found error) or yields undefined
\* keeps its matched text, the others are replaced by their values as text
\* (objects and arrays as JSON).
C8_OccurrencesResolveIndependently ==
  (pc = "returned" /\ BindingCount = 2) =>
     result = Str(Concat([k \in 1..Len(segments) |->
                            PieceAmended(segments[k], contextHierarchy)]))

\* C8 witness: of two unescaped occurrences, the one naming an unregistered
\* operation kept its text and the other was replaced by the JSON text of an
\* object
C8_Witness ==
  /\ pc = "returned"
  /\ BindingCount = 2
  /\ segments[2].n = 0
  /\ segments[4].n = 0
  /\ ExprCases[segments[2].i].why = "BeagleNotFoundError"
  /\ CaseResolves(segments[4].i, contextHierarchy)
  /\ ExprCases[segments[4].i].value.t = "object"
  /\ result = Str(segments[1].s \o SegmentString(segments[2]) \o segments[3].s
                    \o ExprCases[segments[4].i].text \o segments[5].s)

(***************************************************************************)
(* Calls of getLiteralValue                                                *)
(***************************************************************************)
LiteralChars == {Quote, Backslash, "a", "1", "0", "."}

LiteralInputs ==
  UNION {[1..n -> LiteralChars] : n \in 0..MaxLiteralLen}
    \cup { <<"t", "r", "u", "e">>, <<"f", "a", "l", "s", "e">>, <<"n", "u", "l", "l">>, <<"t", "r", "u">>, <<"n", "u", "l", "l", "l">>,
           <<Quote, "a", Quote, "b", Quote>>, <<Quote, "a", Backslash, Quote, "b", Quote>>, <<Quote, "a", Quote, Quote, "b", Quote>>, <<"1", "2", ".", "5", "0">> }

LiteralInit ==
  /\ data \in LiteralInputs
  /\ result = Idle
  /\ pc = "call"
  /\ contextHierarchy = Idle
  /\ segments = Idle
  /\ parameterString = Idle
  /\ position = 0
  /\ parameters = Idle
  /\ consumed = Idle
  /\ delimiters = {}
  /\ currentState = "initial"
  /\ stack = Idle
  /\ remainingInput = Idle

\* getLiteralValue(data) returns
CallGetLiteralValue ==
  /\ pc = "call"
  /\ result' = getLiteralValue(data)
  /\ pc' = "returned"
  /\ UNCHANGED <<paramVars, data, contextHierarchy, segments>>

LiteralNext == CallGetLiteralValue

SpecLiteral == LiteralInit /\ [][LiteralNext]_vars

\* digits, or digits "." digits
IsUnsignedNumber(s) ==
  \E k \in 1..Len(s) :
     /\ \A j \in 1..k : s[j] \in Digits
     /\ \/ k = Len(s)
        \/ /\ k + 2 <= Len(s)
           /\ s[k + 1] = "."
           /\ \A j \in (k + 2)..Len(s) : s[j] \in Digits

\* the digits of a number and how many of them follow the point
NumberDigits(s) == SelectSeq(s, LAMBDA c : c /= ".")
NumberScale(s) ==
  IF \E j \in 1..Len(s) : s[j] = "."
  THEN Len(s) - (CHOOSE j \in 1..Len(s) : s[j] = ".")
  ELSE 0

\* one well-formed quoted string: the quote that closes the one at the start
\* is the last character, \' not closing it
IsQuotedString(s) == Len(s) >= 2 /\ s[1] = Quote /\ ClosingQuote(s, 2) = Len(s)

\* the text of a quoted string: \' stands for '
RECURSIVE QuotedText(_)
QuotedText(s) ==
  IF s = <<>> THEN <<>>
  ELSE IF Len(s) >= 2 /\ s[1] = Backslash /\ s[2] = Quote
       THEN <<Quote>> \o QuotedText(SubSeq(s, 3, Len(s)))
       ELSE <<s[1]>> \o QuotedText(Tail(s))

\* C5: getLiteralValue gives the typed value of true, false, null, an
\* unsigned integer or decimal number and a well-formed quoted string (\'
\* unescaped), and undefined, which is not null, for every other string, a
\* lone ' or 'a'b' included.
C5_LiteralOrUndefined ==
  pc = "returned" =>
     IF data = <<"t", "r", "u", "e">> THEN result = Bool(TRUE)
     ELSE IF data = <<"f", "a", "l", "s", "e">> THEN result = Bool(FALSE)
     ELSE IF data = <<"n", "u", "l", "l">> THEN result = Null /\ result /= Undefined
     ELSE IF IsUnsignedNumber(data)
          THEN /\ result.t = "number"
               /\ result.m * Pow10(NumberScale(data))
                    = DigitsToNat(NumberDigits(data)) * Pow10(result.e)
     ELSE IF IsQuotedString(data)
          THEN result = Str(QuotedText(SubSeq(data, 2, Len(data) - 1)))
     ELSE result = Undefined

(***************************************************************************)
(* Calls of replaceBindings                                                *)
(***************************************************************************)
KeyText == <<"t", "e", "x", "t">>
KeyChildren == <<"c", "h", "i", "l", "d", "r", "e", "n">>
ContextC == <<"c">>
BindC == Str(<<"@", "{", "c", "}">>)
BindN == Str(<<"@", "{", "n", "}">>)

\* the `context` member of a node: none, or the context c with that value
ContextMember(value) ==
  IF value = Undefined THEN <<>>
  ELSE << KV(KeyContext, Obj(<<KV(KeyId, Str(ContextC)), KV(KeyValue, value)>>)) >>

LeafInputs == {BindC, BindN, Num(3, 0), Null}

\* a component: every reserved key holds a binding of the context it may
\* introduce itself
ComponentInputs ==
  { Obj(ContextMember(value)
          \o << KV(KeyId, BindC), KV(KeySpaceComponent, BindC),
                KV(KeyComponent, BindC), KV(KeyText, leaf) >>) :
      value \in {Undefined, Num(1, 0)}, leaf \in LeafInputs }

ItemInputs == ComponentInputs \cup LeafInputs

ChildrenInputs == UNION {[1..n -> ItemInputs] : n \in 0..MaxItems}

TreeInputs ==
  { Obj(ContextMember(value) \o << KV(KeyChildren, Arr(kids)), KV(KeyText, leaf) >>) :
      value \in {Undefined, Num(2, 0), BindN}, kids \in ChildrenInputs,
      leaf \in {BindC, Bool(TRUE)} }
    \cup {Arr(kids) : kids \in ChildrenInputs}
    \cup LeafInputs

TreeInit ==
  /\ data \in TreeInputs
  /\ contextHierarchy \in HierarchyInputs
  /\ result = Idle
  /\ pc = "call"
  /\ segments = Idle
  /\ parameterString = Idle
  /\ position = 0
  /\ parameters = Idle
  /\ consumed = Idle
  /\ delimiters = {}
  /\ currentState = "initial"
  /\ stack = Idle
  /\ remainingInput = Idle

\* replaceBindings(data, contextHierarchy) returns or throws
CallReplaceBindings ==
  /\ pc = "call"
  /\ \E out \in {replaceBindings(data, contextHierarchy)} :
        /\ result' = out
        /\ pc' = IF out.err = "" THEN "returned" ELSE "thrown"
  /\ UNCHANGED <<paramVars, data, contextHierarchy, segments>>

TreeNext == CallReplaceBindings

SpecTree == TreeInit /\ [][TreeNext]_vars

(***************************************************************************)
(* Claims about replaceBindings                                            *)
(***************************************************************************)
\* the keys whose values are to be copied
ReservedKeys == {KeyId, KeyContext, KeySpaceComponent}

\* the index an array path element stands for
IndexOf(key) == DigitsToNat(Tail(key))

\* the value at `path` in a tree
RECURSIVE ValueAt(_, _)
ValueAt(node, path) ==
  IF path = <<>> THEN node
  ELSE IF node.t = "array" THEN ValueAt(node.items[IndexOf(Head(path)) + 1], Tail(path))
  ELSE ValueAt(Field(node, Head(path)), Tail(path))

\* the string leaves of a tree that are not under a reserved key, each with
\* its path
RECURSIVE StringLeaves(_, _)
StringLeaves(node, path) ==
  CASE node.t = "string" -> {[path |-> path, str |-> node.s]}
    [] node.t = "array" ->
         UNION {StringLeaves(node.items[i], Append(path, IndexKey(i - 1))) :
                  i \in 1..Len(node.items)}
    [] node.t = "object" ->
         UNION {StringLeaves(node.kv[i].v, Append(path, node.kv[i].k)) :
                  i \in {j \in 1..Len(node.kv) : node.kv[j].k \notin ReservedKeys}}
    [] OTHER -> {}

\* the paths of the object nodes of a tree that are not under a reserved key
RECURSIVE ObjectNodes(_, _)
ObjectNodes(node, path) ==
  CASE node.t = "array" ->
         UNION {ObjectNodes(node.items[i], Append(path, IndexKey(i - 1))) :
                  i \in 1..Len(node.items)}
    [] node.t = "object" ->
         {path} \cup
         UNION {ObjectNodes(node.kv[i].v, Append(path, node.kv[i].k)) :
                  i \in {j \in 1..Len(node.kv) : node.kv[j].k \notin ReservedKeys}}
    [] OTHER -> {}

\* the hierarchy in force at `path`: the hierarchy of the call and, after it,
\* the contexts of the objects on the way down, the node at `path` excluded
RECURSIVE HierarchyAt(_, _, _)
HierarchyAt(node, h, path) ==
  IF path = <<>> THEN h
  ELSE IF node.t = "array"
       THEN HierarchyAt(node.items[IndexOf(Head(path)) + 1], h, Tail(path))
  ELSE LET c == Field(node, KeyContext)
           own == IF c = Undefined THEN <<>>
                  ELSE <<Context(Field(c, KeyId).s, Field(c, KeyValue))>>
       IN HierarchyAt(Field(node, Head(path)), h \o own, Tail(path))

CallLeaves == {[path |-> c.path, str |-> c.str] : c \in result.calls}

\* C1: replaceBindings never throws: for every tree, null leaves included,
\* and every hierarchy the call returns a value.
C1_NeverThrows == pc /= "thrown"

\* C6: at every object node the values under id, context and
\* " _beagleComponent_" are never given to the interpolator, and are in the
\* tree returned as they were; every other string leaf is given to the
\* interpolator, and the tree returned holds what it made of the leaf.
C6_ReservedKeysAreCopied ==
  /\ pc \in {"returned", "thrown"} => CallLeaves \subseteq StringLeaves(data, <<>>)
  /\ pc = "returned" =>
       /\ CallLeaves = StringLeaves(data, <<>>)
       /\ \A p \in ObjectNodes(data, <<>>) : \A k \in ReservedKeys :
            ValueAt(result.v, Append(p, k)) = ValueAt(data, Append(p, k))
       /\ \A c \in result.calls :
            ValueAt(result.v, c.path) = replaceBindingsInString(c.str, c.hierarchy)

\* C6 witness: a node that introduces the context c was returned with its id
\* still the binding @{c}, while its text, the same binding, was resolved
C6_Witness ==
  /\ pc = "returned"
  /\ \E p \in ObjectNodes(data, <<>>) :
       /\ Field(ValueAt(data, p), KeyContext) /= Undefined
       /\ ValueAt(data, Append(p, KeyId)) = BindC
       /\ ValueAt(data, Append(p, KeyText)) = BindC
       /\ ValueAt(result.v, Append(p, KeyId)) = BindC
       /\ ValueAt(result.v, Append(p, KeySpaceComponent)) = BindC
       /\ ValueAt(result.v, Append(p, KeyText)) = Num(1, 0)

\* C7: every string leaf is resolved with the hierarchy of the call extended
\* by the contexts of the objects above it only (the object holding it
\* included): a context a node introduces reaches neither the node's siblings
\* nor its ancestors.
C7_ContextReachesDescendantsOnly ==
  /\ pc \in {"returned", "thrown"} =>
       \A c \in result.calls : c.hierarchy = HierarchyAt(data, contextHierarchy, c.path)
  /\ pc = "returned" =>
       \A leaf \in StringLeaves(data, <<>>) :
          ValueAt(result.v, leaf.path) =
            replaceBindingsInString(leaf.str, HierarchyAt(data, contextHierarchy, leaf.path))

\* C7 witness: in an array, the first item introduces c and its text @{c}
\* was resolved; the second item, the string @{c}, was left as it was
C7_Witness ==
  /\ pc = "returned"
  /\ data.t = "array"
  /\ Len(data.items) = 2
  /\ data.items[1].t = "object"
  /\ Field(data.items[1], KeyContext) /= Undefined
  /\ Field(data.items[1], KeyText) = BindC
  /\ data.items[2] = BindC
  /\ Field(result.v.items[1], KeyText) = Num(1, 0)
  /\ result.v.items[2] = BindC

====
